---- MODULE Spec2Model ----
(***************************************************************************)
(* ssubmit: normalisation of the --mem and --time arguments, rendering of  *)
(* the sbatch submission script, and the control flow of main.             *)
(*                                                                         *)
(* Text is a sequence of one-character strings.  Byte quantities are       *)
(* sequences of decimal digits (most significant first, no leading zero,   *)
(* <<>> for zero) so that terabyte inputs are computed exactly.            *)
(***************************************************************************)
EXTENDS Integers, Sequences, FiniteSets, TLC

VARIABLES
    mem,        \* parse_memory under test: its input s and its result res
    tm,         \* parse_time under test: s, res, and the result of parsing res again
    dur,        \* to_slurm_time under test: a Duration (secs, nanos) and its text
    scr,        \* make_submission_script under test
    pc,         \* position of main
    raw,        \* the command line as typed
    args,       \* the Cli struct clap builds
    command,    \* the command main resolved
    script,     \* the script handle_batch_job rendered
    spawned,    \* the processes spawned so far, with what each was given
    printed,    \* what was written to standard output
    log,        \* what was logged
    outcome     \* how the run ended

vars == <<mem, tm, dur, scr, pc, raw, args, command, script, spawned, printed, log, outcome>>

\* The result slot of a function that has not been applied yet.
NoResult == [ok |-> FALSE, err |-> [kind |-> "unset"]]

-----------------------------------------------------------------------------
(* Characters *)

DigitChars == <<"0", "1", "2", "3", "4", "5", "6", "7", "8", "9">>

IsDigit(c) == \E i \in 1..10 : DigitChars[i] = c

DigitVal(c) == (CHOOSE i \in 1..10 : DigitChars[i] = c) - 1

LowerChars == <<"a", "b", "c", "d", "e", "f", "g", "h", "i", "j", "k", "l", "m",
                "n", "o", "p", "q", "r", "s", "t", "u", "v", "w", "x", "y", "z">>

UpperChars == <<"A", "B", "C", "D", "E", "F", "G", "H", "I", "J", "K", "L", "M",
                "N", "O", "P", "Q", "R", "S", "T", "U", "V", "W", "X", "Y", "Z">>

is_ascii_alphabetic(c) == \E i \in 1..26 : LowerChars[i] = c \/ UpperChars[i] = c

to_ascii_uppercase(c) ==
    IF \E i \in 1..26 : LowerChars[i] = c
    THEN UpperChars[CHOOSE i \in 1..26 : LowerChars[i] = c]
    ELSE c

to_ascii_lowercase(c) ==
    IF \E i \in 1..26 : UpperChars[i] = c
    THEN LowerChars[CHOOSE i \in 1..26 : UpperChars[i] = c]
    ELSE c

Front(s) == SubSeq(s, 1, Len(s) - 1)

Last(s) == s[Len(s)]

Drop(s, n) == SubSeq(s, n + 1, Len(s))

Take(s, n) == SubSeq(s, 1, n)

RECURSIVE trim_start(_)
trim_start(s) == IF s /= <<>> /\ Head(s) = " " THEN trim_start(Tail(s)) ELSE s

RECURSIVE trim_end(_)
trim_end(s) == IF s /= <<>> /\ Last(s) = " " THEN trim_end(Front(s)) ELSE s

trim(s) == trim_end(trim_start(s))

\* All texts of at most n characters over the alphabet A.
TextsUpTo(A, n) == UNION {[1..k -> A] : k \in 0..n}

Ok(v) == [ok |-> TRUE, val |-> v]

Err(e) == [ok |-> FALSE, err |-> e]

-----------------------------------------------------------------------------
(* Exact naturals as digit sequences *)

RECURSIVE Norm(_)
Norm(d) == IF d /= <<>> /\ Head(d) = 0 THEN Norm(Tail(d)) ELSE d

RECURSIVE AddOne(_)
AddOne(d) ==
    IF d = <<>> THEN <<1>>
    ELSE IF Last(d) = 9 THEN AddOne(Front(d)) \o <<0>>
    ELSE Front(d) \o <<Last(d) + 1>>

RECURSIVE NatDigits(_)
NatDigits(n) == IF n = 0 THEN <<>> ELSE NatDigits(n \div 10) \o <<n % 10>>

RECURSIVE MulCarry(_, _, _)
MulCarry(d, k, carry) ==
    IF d = <<>> THEN NatDigits(carry)
    ELSE LET p == Last(d) * k + carry
         IN  MulCarry(Front(d), k, p \div 10) \o <<p % 10>>

MulSmall(d, k) == Norm(MulCarry(d, k, 0))

RECURSIVE Zeros(_)
Zeros(n) == IF n = 0 THEN <<>> ELSE <<0>> \o Zeros(n - 1)

AllZero(d) == \A i \in 1..Len(d) : d[i] = 0

\* d * 10^e
Shl(d, e) == IF d = <<>> THEN <<>> ELSE d \o Zeros(e)

\* floor(d / 10^e)
Shr(d, e) == IF Len(d) <= e THEN <<>> ELSE Take(d, Len(d) - e)

\* d mod 10^e, as its e (or fewer) low digits
Low(d, e) == IF Len(d) <= e THEN d ELSE Drop(d, Len(d) - e)

\* ceil(d / 10^e)
CeilShr(d, e) == IF AllZero(Low(d, e)) THEN Shr(d, e) ELSE AddOne(Shr(d, e))

RECURSIVE DigitText(_)
DigitText(d) == IF d = <<>> THEN <<>> ELSE <<DigitChars[Head(d) + 1]>> \o DigitText(Tail(d))

\* format!("{}", n) of an unsigned integer
FormatNat(d) == IF d = <<>> THEN <<"0">> ELSE DigitText(d)

RECURSIVE TextDigits(_)
TextDigits(s) == IF s = <<>> THEN <<>> ELSE <<DigitVal(Head(s))>> \o TextDigits(Tail(s))

-----------------------------------------------------------------------------
(* byte_unit: Byte::parse_str(s, ignore_case = true) and get_adjusted_unit,  *)
(* as parse_memory calls them.  A Byte is its number of bytes.  A Unit is    *)
(* [bin, exp]: 1000^exp bytes, or 1024^exp bytes when bin.  The inputs       *)
(* drawn below hold no unit letter beyond T and no spelled-out "bit".        *)

UnitB == [bin |-> FALSE, exp |-> 0]

UnitKB == [bin |-> FALSE, exp |-> 1]

UnitMB == [bin |-> FALSE, exp |-> 2]

PrefixLetters == <<"K", "M", "G", "T">>

IsPrefixLetter(c) == \E i \in 1..Len(PrefixLetters) : PrefixLetters[i] = to_ascii_uppercase(c)

PrefixExp(c) == CHOOSE i \in 1..Len(PrefixLetters) : PrefixLetters[i] = to_ascii_uppercase(c)

UnitError(c) == Err([kind |-> "UnitIncorrect", ch |-> c])

\* What follows the prefix letter: nothing, "b", "i" or "ib", in either case.
read_ib(rest, exp) ==
    LET isI   == rest /= <<>> /\ to_ascii_uppercase(Head(rest)) = "I"
        after == IF isI THEN Tail(rest) ELSE rest
    IN  IF after = <<>> THEN Ok([bin |-> isI, exp |-> exp])
        ELSE IF to_ascii_uppercase(Head(after)) /= "B" THEN UnitError(Head(after))
        ELSE IF Tail(after) /= <<>> THEN UnitError(Head(Tail(after)))
        ELSE Ok([bin |-> isI, exp |-> exp])

\* An unknown unit letter taken for bytes.
read_xib_default_bytes(e, rest) ==
    IF to_ascii_uppercase(e) = "B"
    THEN IF rest = <<>> THEN Ok(UnitB) ELSE UnitError(Head(rest))
    ELSE IF IsPrefixLetter(e) THEN read_ib(rest, PrefixExp(e))
    ELSE Ok(UnitB)

\* The unit that starts at character e, the rest of the text following it.
read_xib(e, rest) ==
    IF to_ascii_uppercase(e) = "B"
    THEN IF rest = <<>> THEN Ok(UnitB) ELSE UnitError(Head(rest))
    ELSE IF IsPrefixLetter(e) THEN read_ib(rest, PrefixExp(e))
    ELSE UnitError(e)

RECURSIVE DigitRun(_)
DigitRun(s) ==
    IF s /= <<>> /\ IsDigit(Head(s)) THEN <<Head(s)>> \o DigitRun(Tail(s)) ELSE <<>>

RECURSIVE Mul1024(_, _)
Mul1024(d, n) == IF n = 0 THEN d ELSE Mul1024(MulSmall(d, 1024), n - 1)

\* Every prefix read as a power of 1024.
from_decimal_with_unit_binary(num, scale, unit) ==
    CeilShr(Mul1024(Norm(num), unit.exp), scale)

\* ceil(size * unit), size being the digits num scaled down by 10^scale
from_decimal_with_unit(num, scale, unit) ==
    LET n == Norm(num)
    IN  IF unit.bin THEN CeilShr(Mul1024(n, unit.exp), scale)
        ELSE IF 3 * unit.exp >= scale THEN Shl(n, 3 * unit.exp - scale)
        ELSE CeilShr(n, scale - 3 * unit.exp)

Byte_parse_str(s) ==
    LET t     == trim(s)
        whole == DigitRun(t)
        r1    == Drop(t, Len(whole))
        isDot == r1 /= <<>> /\ Head(r1) = "."
        frac  == IF isDot THEN DigitRun(Tail(r1)) ELSE <<>>
        r2    == IF isDot THEN Drop(r1, 1 + Len(frac)) ELSE r1
        r3    == trim_start(r2)
        unit  == IF r3 = <<>> THEN Ok(UnitB) ELSE read_xib(Head(r3), Tail(r3))
    IN  IF t = <<>> THEN Err([kind |-> "NoValue"])
        ELSE IF whole = <<>> THEN Err([kind |-> "NotNumber", ch |-> Head(t)])
        ELSE IF isDot /\ frac = <<>>
             THEN Err([kind |-> "NotNumber", ch |-> IF Len(r1) > 1 THEN r1[2] ELSE "."])
        ELSE IF ~unit.ok THEN unit
        ELSE Ok(from_decimal_with_unit(TextDigits(whole \o frac), Len(frac), unit.val))

\* The value of a Byte in a decimal unit: whole units, and the bytes left over.
get_adjusted_unit(bytes, unit) ==
    [whole |-> Shr(bytes, 3 * unit.exp), rest |-> Low(bytes, 3 * unit.exp)]

\* ceil left out: "value as u64" truncates.
ceil_truncating(v) == v.whole

ceil(v) == IF AllZero(v.rest) THEN v.whole ELSE AddOne(v.whole)

LessThanOne(v) == v.whole = <<>>

-----------------------------------------------------------------------------
(* cli.rs: parse_memory *)

\* The sentinel taken to be any zero numeral.
IsSentinel_any_zero(s) == s /= <<>> /\ \A i \in 1..Len(s) : s[i] = "0"

IsSentinel(s) == s = <<"0">>

\* No unit supplied for a bare number: Byte::parse_str reads it as bytes.
WithDefaultUnit_none(s) == s

WithDefaultUnit(s) ==
    IF \A i \in 1..Len(s) : ~is_ascii_alphabetic(s[i]) THEN s \o <<"M">> ELSE s

\* The number written as "value as u64" alone would give it, cut off.
FormatMemory_cut_off(bytes) ==
    LET mb == get_adjusted_unit(bytes, UnitMB)
        kb == get_adjusted_unit(bytes, UnitKB)
    IN  IF LessThanOne(mb)
        THEN FormatNat(kb.whole) \o <<"K">>
        ELSE FormatNat(mb.whole) \o <<"M">>

FormatMemory(bytes) ==
    LET mb == get_adjusted_unit(bytes, UnitMB)
        kb == get_adjusted_unit(bytes, UnitKB)
    IN  IF LessThanOne(mb)
        THEN FormatNat(ceil(kb)) \o <<"K">>
        ELSE FormatNat(ceil(mb)) \o <<"M">>

\* map_err(|e| e.to_string()): the start of the message of a ParseError; what
\* byte_unit says after it about the characters it expected is left out.
ParseError_to_string(e) ==
    IF e.kind = "UnitIncorrect"
    THEN \* "the character '{}' is incorrect"
         <<"t", "h", "e", " ", "c", "h", "a", "r", "a", "c", "t", "e", "r", " ", "'">> \o <<e.ch>> \o <<"'", " ", "i", "s", " ", "i", "n", "c", "o", "r", "r", "e", "c", "t">>
    ELSE IF e.kind = "NotNumber"
    THEN \* "the character '{}' is not a number"
         <<"t", "h", "e", " ", "c", "h", "a", "r", "a", "c", "t", "e", "r", " ", "'">> \o <<e.ch>> \o <<"'", " ", "i", "s", " ", "n", "o", "t", " ", "a", " ", "n", "u", "m", "b", "e", "r">>
    ELSE \* "no value can be found"
         <<"n", "o", " ", "v", "a", "l", "u", "e", " ", "c", "a", "n", " ", "b", "e", " ", "f", "o", "u", "n", "d">>

parse_memory(s) ==
    IF IsSentinel(s) THEN Ok(s)
    ELSE LET bytes == Byte_parse_str(WithDefaultUnit(s))
         IN  IF ~bytes.ok THEN Err(ParseError_to_string(bytes.err))
             ELSE Ok(FormatMemory(bytes.val))

-----------------------------------------------------------------------------
(* lib.rs: to_slurm_time.  A Duration is [secs, nanos], nanos < 10^9. *)

FormatInt(n) == FormatNat(NatDigits(n))

\* Zero decided on the whole seconds alone.
is_zero_by_secs(d) == d.secs = 0

is_zero(d) == d.secs = 0 /\ d.nanos = 0

as_secs(d) == d.secs

max(a, b) == IF a >= b THEN a ELSE b

\* Hours past a day carried into a days prefix.
to_slurm_time_days(d) ==
    IF is_zero(d) THEN <<"0">>
    ELSE LET remainder == max(as_secs(d), 1)
             secs      == remainder % 60
             rem2      == remainder \div 60
             mins      == rem2 % 60
             rem3      == rem2 \div 60
         IN  IF remainder < 60 THEN <<"0", ":">> \o FormatInt(remainder)
             ELSE IF rem2 < 60 THEN FormatInt(rem2) \o <<":">> \o FormatInt(secs)
             ELSE IF rem3 < 24
             THEN FormatInt(rem3) \o <<":">> \o FormatInt(mins) \o <<":">> \o FormatInt(secs)
             ELSE FormatInt(rem3 \div 24) \o <<"-">> \o FormatInt(rem3 % 24) \o <<":">>
                  \o FormatInt(mins) \o <<":">> \o FormatInt(secs)

to_slurm_time(d) ==
    IF is_zero(d) THEN <<"0">>
    ELSE LET remainder == max(as_secs(d), 1)
             secs      == remainder % 60
             rem2      == remainder \div 60
             mins      == rem2 % 60
             rem3      == rem2 \div 60
         IN  IF remainder < 60 THEN <<"0", ":">> \o FormatInt(remainder)
             ELSE IF rem2 < 60 THEN FormatInt(rem2) \o <<":">> \o FormatInt(secs)
             ELSE FormatInt(rem3) \o <<":">> \o FormatInt(mins) \o <<":">> \o FormatInt(secs)

-----------------------------------------------------------------------------
(* duration_str::parse, as parse_time calls it: components of a number and  *)
(* an optional unit, blanks allowed around them, a number with no unit      *)
(* counting seconds.  The inputs drawn below hold no unit beyond days and   *)
(* no '+' or '*'.                                                           *)

NanosPerSec == 1000000000

NanosPerMilli == 1000000

RECURSIVE AlphaRun(_)
AlphaRun(s) ==
    IF s /= <<>> /\ is_ascii_alphabetic(Head(s)) THEN <<Head(s)>> \o AlphaRun(Tail(s)) ELSE <<>>

RECURSIVE LowerText(_)
LowerText(s) == IF s = <<>> THEN <<>> ELSE <<to_ascii_lowercase(Head(s))>> \o LowerText(Tail(s))

RECURSIVE TextNat(_)
TextNat(s) == IF s = <<>> THEN 0 ELSE TextNat(Front(s)) * 10 + DigitVal(Last(s))

MilliNames == {<<"m", "s">>, <<"m", "s", "e", "c">>}

SecondNames == {<<>>, <<"s">>, <<"s", "e", "c">>}

MinuteNames == {<<"m">>, <<"m", "i", "n">>}

HourNames == {<<"h">>, <<"h", "r">>, <<"h", "o", "u", "r">>}

DayNames == {<<"d">>, <<"d", "a", "y">>}

SecsPerMinute == 60

SecsPerHour == 3600

SecsPerDay == 86400

IsTimeUnit(u) == u \in MilliNames \cup SecondNames \cup MinuteNames \cup HourNames \cup DayNames

\* A number with no unit counted as minutes, as the scheduler counts one.
UnitDuration_bare_minutes(v, u) ==
    IF u \in MilliNames
    THEN [secs |-> v \div 1000, nanos |-> (v % 1000) * NanosPerMilli]
    ELSE [secs |-> v * (IF u = <<>> THEN SecsPerMinute
                        ELSE IF u \in SecondNames THEN 1
                        ELSE IF u \in MinuteNames THEN SecsPerMinute
                        ELSE IF u \in HourNames THEN SecsPerHour
                        ELSE SecsPerDay),
          nanos |-> 0]

\* The Duration of v units u.
UnitDuration(v, u) ==
    IF u \in MilliNames
    THEN [secs |-> v \div 1000, nanos |-> (v % 1000) * NanosPerMilli]
    ELSE [secs |-> v * (IF u \in SecondNames THEN 1
                        ELSE IF u \in MinuteNames THEN SecsPerMinute
                        ELSE IF u \in HourNames THEN SecsPerHour
                        ELSE SecsPerDay),
          nanos |-> 0]

DurationAdd(a, b) ==
    [secs  |-> a.secs + b.secs + (a.nanos + b.nanos) \div NanosPerSec,
     nanos |-> (a.nanos + b.nanos) % NanosPerSec]

RECURSIVE ParseComponents(_, _)
ParseComponents(s, acc) ==
    LET t    == trim_start(s)
        num  == DigitRun(t)
        r1   == trim_start(Drop(t, Len(num)))
        unit == LowerText(AlphaRun(r1))
        r2   == trim_start(Drop(r1, Len(unit)))
    IN  IF num = <<>>
        THEN Err([kind |-> "ExpectDigit", at |-> Len(t)])
        ELSE IF ~IsTimeUnit(unit)
        THEN Err([kind |-> "UnknownUnit", at |-> Len(r1)])
        ELSE IF r2 = <<>>
        THEN Ok(DurationAdd(acc, UnitDuration(TextNat(num), unit)))
        ELSE ParseComponents(r2, DurationAdd(acc, UnitDuration(TextNat(num), unit)))

duration_str_parse(s) ==
    IF s = <<>> THEN Err([kind |-> "Empty", at |-> 0])
    ELSE ParseComponents(s, [secs |-> 0, nanos |-> 0])

-----------------------------------------------------------------------------
(* cli.rs: parse_time *)

\* An optional group (\d+ sep)? of the pattern: the texts left to match.
OptGroup(rs, sep) ==
    rs \cup {Drop(r, Len(DigitRun(r)) + 1) :
                r \in {x \in rs : /\ DigitRun(x) /= <<>>
                                  /\ Len(x) > Len(DigitRun(x))
                                  /\ x[Len(DigitRun(x)) + 1] = sep}}

\* The pattern without its days group.
slurm_time_re_no_days(s) ==
    LET afterHours == OptGroup({s}, ":")
        afterMins  == OptGroup(afterHours, ":")
    IN  \E r \in afterMins : DigitRun(r) = r

\* The pattern without its hours group.
slurm_time_re_no_hours(s) ==
    LET afterDays == OptGroup({s}, "-")
        afterMins == OptGroup(afterDays, ":")
    IN  \E r \in afterMins : DigitRun(r) = r

\* The pattern with its last numeral, the seconds, required.
slurm_time_re_seconds_required(s) ==
    LET afterDays  == OptGroup({s}, "-")
        afterHours == OptGroup(afterDays, ":")
        afterMins  == OptGroup(afterHours, ":")
    IN  \E r \in afterMins : r /= <<>> /\ DigitRun(r) = r

\* ^(?:(\d+)-)?(?:(\d+):)?(?:(\d+):)?(\d+)?$
slurm_time_re_is_match(s) ==
    LET afterDays  == OptGroup({s}, "-")
        afterHours == OptGroup(afterDays, ":")
        afterMins  == OptGroup(afterHours, ":")
    IN  \E r \in afterMins : DigitRun(r) = r

\* " is not a valid time: "
NotValidTime == <<" ", "i", "s", " ", "n", "o", "t", " ", "a", " ", "v", "a", "l", "i", "d", " ", "t", "i", "m", "e", ":", " ">>

\* format!("{s} is not a valid time: {e}"): the text before {e}, and e.
TimeError(s, e) == Err([text |-> s \o NotValidTime, cause |-> e])

\* The input handed on as it is when the free-form parser rejects it.
parse_time_lenient(s) ==
    IF slurm_time_re_is_match(s) THEN Ok(s)
    ELSE LET d == duration_str_parse(s)
         IN  IF d.ok THEN Ok(to_slurm_time(d.val)) ELSE Ok(s)

parse_time(s) ==
    IF slurm_time_re_is_match(s) THEN Ok(s)
    ELSE LET d == duration_str_parse(s)
         IN  IF d.ok THEN Ok(to_slurm_time(d.val))
             ELSE TimeError(s, d.err)

-----------------------------------------------------------------------------
(* make_submission_script, which main.rs imports from the library.  Its     *)
(* definition is outside the source files at hand: it is modelled on the    *)
(* specification's section 4.3.  A script is a text, its lines ended by NL. *)

NL == "\n"

\* "#SBATCH --job-name="
JobNameDirective == <<"#", "S", "B", "A", "T", "C", "H", " ", "-", "-", "j", "o", "b", "-", "n", "a", "m", "e", "=">>

\* "#SBATCH --mem="
MemDirective == <<"#", "S", "B", "A", "T", "C", "H", " ", "-", "-", "m", "e", "m", "=">>

\* "#SBATCH --time="
TimeDirective == <<"#", "S", "B", "A", "T", "C", "H", " ", "-", "-", "t", "i", "m", "e", "=">>

\* "#SBATCH --error="
ErrorDirective == <<"#", "S", "B", "A", "T", "C", "H", " ", "-", "-", "e", "r", "r", "o", "r", "=">>

\* "#SBATCH --output="
OutputDirective == <<"#", "S", "B", "A", "T", "C", "H", " ", "-", "-", "o", "u", "t", "p", "u", "t", "=">>

\* "set -"
SetPrefix == <<"s", "e", "t", " ", "-">>

RECURSIVE SplitLines(_)
SplitLines(text) ==
    IF \E i \in 1..Len(text) : text[i] = NL
    THEN LET i == CHOOSE j \in 1..Len(text) : text[j] = NL /\ \A k \in 1..(j - 1) : text[k] /= NL
         IN  <<Take(text, i - 1)>> \o SplitLines(Drop(text, i))
    ELSE <<text>>

RECURSIVE JoinLines(_)
JoinLines(lines) ==
    IF Len(lines) = 1 THEN lines[1]
    ELSE lines[1] \o <<NL>> \o JoinLines(Tail(lines))

StartsWith(s, prefix) == Len(s) >= Len(prefix) /\ Take(s, Len(prefix)) = prefix

RemoveAt(seq, i) == Take(seq, i - 1) \o Drop(seq, i)

\* The shell-options line left in place, empty, for empty options.
set_line_dropped(set) == IF set = <<>> THEN <<>> ELSE SetPrefix \o set \o <<NL>>

set_line(set) == (IF set = <<>> THEN <<>> ELSE SetPrefix \o set) \o <<NL>>

\* The text with its first line that holds the memory directive taken out.
RemoveMemoryLine(text) ==
    LET lines == SplitLines(text)
        hits  == {i \in 1..Len(lines) : StartsWith(lines[i], MemDirective)}
    IN  IF hits = {} THEN text
        ELSE JoinLines(RemoveAt(lines, CHOOSE i \in hits : \A j \in hits : i <= j))

\* The memory directive blanked, its line left in place.
make_submission_script_blank_line(shebang, set, name, memory, time, error, output, cmd) ==
    shebang \o <<NL>>
    \o JobNameDirective \o name \o <<NL>>
    \o (IF memory = <<"0">> THEN <<>> ELSE MemDirective \o memory) \o <<NL>>
    \o TimeDirective \o time \o <<NL>>
    \o ErrorDirective \o error \o <<NL>>
    \o OutputDirective \o output \o <<NL>>
    \o set_line(set)
    \o <<NL>>
    \o cmd \o <<NL>>

make_submission_script(shebang, set, name, memory, time, error, output, cmd) ==
    LET filled == shebang \o <<NL>>
                  \o JobNameDirective \o name \o <<NL>>
                  \o MemDirective \o memory \o <<NL>>
                  \o TimeDirective \o time \o <<NL>>
                  \o ErrorDirective \o error \o <<NL>>
                  \o OutputDirective \o output \o <<NL>>
                  \o set_line(set)
                  \o <<NL>>
                  \o cmd \o <<NL>>
    IN  IF memory = <<"0">> THEN RemoveMemoryLine(filled) ELSE filled

-----------------------------------------------------------------------------
(* parse_memory applied to one --mem value *)

MaxMemLen == 4

MemAlphabet == {"0", "1", "5", "9", ".", " ", "k", "M", "b", "z"}

\* The values of the tests and doc comments of cli.rs, and a few around them.
MemExamples ==
    {
      <<"0">>, <<"4", "k", "b">>, <<"4", "0", "0", "0", "k", "b">>, <<"4", "m", "b">>,
      <<"4", "m">>, <<"4", "M">>, <<"4", " ", "M">>, <<"4", " ", "M", "b">>,
      <<"5", "g">>, <<"1", "t">>, <<"1", ".", "5", "g", "b">>, <<"5", "0", ".", "7", "m", "b">>,
      <<"5", "0", ".", "1", "m", "b">>, <<"5", "0", "0", "1", "k", "b">>, <<"0", ".", "5", "6", "M">>, <<"5", "0", "0", "0">>,
      <<"5", "0", "b">>, <<"5", "z">>, <<"4", ".", "3", "k", "b">>, <<"7", " ", "G", "b">>,
      <<"9", "0", "0", "0">>, <<"4", ".", "1", "M", "B">>, <<"0", "0">>, <<"0", "M">>,
      <<"0", ".", "0">>, <<"1", "k", "i", "b">>, <<"1", "M", "i", "B">>, <<"9", "9", "9", "0", "0", "1", "b">>,
      <<"9", "9", "9", "9", "9", "9", "b">>, <<"1", "0", "0", "0", "0", "0", "0", "b">>, <<"1", "0", "0", "0", "0", "0", "1", "b">>, <<"0", ".", "0", "0", "0", "1", "k">>,
      <<"1", "G">>, <<"1", "2", ".", "5", " ", "k", "B">>, <<"9", "9", "9", "9", "9", "9", ".", "5", "b">>, <<"2", ".", "5", "T">>
    }

MemInputs == TextsUpTo(MemAlphabet, MaxMemLen) \cup MemExamples

IdleMem == [s |-> <<>>, at |-> "idle", res |-> NoResult]

IdleTm == [s |-> <<>>, at |-> "idle", res |-> NoResult, again |-> NoResult]

IdleDur == [secs |-> 0, nanos |-> 0, at |-> "idle", res |-> <<>>]

NoScript == <<>>

IdleScr == [in |-> [shebang |-> <<>>, set |-> <<>>, name |-> <<>>, memory |-> <<>>, time |-> <<>>,
                    error |-> <<>>, output |-> <<>>, cmd |-> <<>>],
            out |-> NoScript, outDefault |-> NoScript]

MainVars == <<pc, raw, args, command, script, spawned, printed, log, outcome>>

Absent == [some |-> FALSE, val |-> <<>>]

Some(v) == [some |-> TRUE, val |-> v]

NoRaw ==
    [name |-> <<>>, command |-> Absent, remainder |-> <<>>, memory |-> Absent, time |-> Absent,
     dry_run |-> FALSE, test_only |-> FALSE, interactive |-> FALSE, shell |-> <<>>]

NoArgs ==
    [name |-> <<>>, command |-> Absent, remainder |-> <<>>, output |-> <<>>, error |-> <<>>,
     memory |-> <<>>, time |-> <<>>, shebang |-> <<>>, set |-> <<>>,
     dry_run |-> FALSE, test_only |-> FALSE, interactive |-> FALSE, shell |-> <<>>]

NoOutcome == [kind |-> "running"]

MainIdle ==
    /\ pc = "idle"
    /\ raw = NoRaw
    /\ args = NoArgs
    /\ command = <<>>
    /\ script = NoScript
    /\ spawned = <<>>
    /\ printed = <<>>
    /\ log = <<>>
    /\ outcome = NoOutcome

MemInit ==
    /\ mem \in {[s |-> s, at |-> "ready", res |-> NoResult] : s \in MemInputs}
    /\ tm = IdleTm
    /\ dur = IdleDur
    /\ scr = IdleScr
    /\ MainIdle

MemParse ==
    /\ mem.at = "ready"
    /\ mem' = [mem EXCEPT !.at = "done", !.res = parse_memory(mem.s)]
    /\ UNCHANGED <<tm, dur, scr, MainVars>>

MemNext == MemParse

SpecMemory == MemInit /\ [][MemNext]_vars

-----------------------------------------------------------------------------
(* parse_time applied to one --time value, and again to what it returned *)

MaxTimeLen == 4

TimeAlphabet == {"0", "1", "5", "9", ":", "-", ".", "d", "h", "m", "s"}

\* The values of the tests and doc comments of cli.rs, and a few around them.
TimeExamples ==
    {
      <<"4", "m", "s">>, <<"4", "s">>, <<"4", "m">>, <<"4", "0", "0", "m">>,
      <<"3", "H">>, <<"3", "h", "4", "6", "m", "i", "n">>, <<"3", "h", " ", "4", "6", "m", "i", "n">>, <<"1", "d", "4", "s">>,
      <<"3", ":", "4", "5">>, <<"1", ":", "3", ":", "4", "5">>, <<"1", "-", "1", "2">>, <<"1", "-", "1", "2", ":", "3", "0">>,
      <<"1", "-", "1", "2", ":", "3", "0", ":", "1", "2">>, <<"3">>, <<"0">>, <<"1", ".", "5", "d">>,
      <<"5", "m", "3">>, <<"1", "d">>, <<"0", "s">>, <<"0", "m", "s">>,
      <<"9", "9", "9", "m", "s">>, <<"1", "5", "0", "0", "m", "s">>, <<"5", "9", "s">>, <<"6", "0", "s">>,
      <<"3", "5", "9", "9", "s">>, <<"3", "6", "0", "0", "s">>, <<"1", "5", "6", "h", "1", "m", "1", "7", "s">>, <<"1", "-">>,
      <<"3", ":">>, <<"1", ":", "2", ":">>, <<"1", ":", "2", ":", "3", ":", "4">>, <<"1", "-", "2", "-", "3">>,
      <<"-", "1">>, <<"5", "x">>, <<"h">>, <<"1", "0", "h">>,
      <<"4", "5", "m", "2", "1", "s">>, <<"5", "d">>
    }

TimeInputs == TextsUpTo(TimeAlphabet, MaxTimeLen) \cup TimeExamples

TimeInit ==
    /\ tm \in {[s |-> s, at |-> "ready", res |-> NoResult, again |-> NoResult] : s \in TimeInputs}
    /\ mem = IdleMem
    /\ dur = IdleDur
    /\ scr = IdleScr
    /\ MainIdle

TimeParse ==
    /\ tm.at = "ready"
    /\ tm' = [tm EXCEPT !.at = "parsed", !.res = parse_time(tm.s)]
    /\ UNCHANGED <<mem, dur, scr, MainVars>>

TimeReparse ==
    /\ tm.at = "parsed"
    /\ tm.res.ok
    /\ tm' = [tm EXCEPT !.at = "reparsed", !.again = parse_time(tm.res.val)]
    /\ UNCHANGED <<mem, dur, scr, MainVars>>

TimeNext == TimeParse \/ TimeReparse

SpecTime == TimeInit /\ [][TimeNext]_vars

-----------------------------------------------------------------------------
(* to_slurm_time applied to one Duration *)

MaxSecs == 3700

\* Sub-second parts of a Duration: none, the least, a half, the most.
NanosSamples == {0, 1, 500000000, 999999999}

\* Whole seconds past MaxSecs: around a day, and the 6.5 days of the tests.
SecsSamples == {9042, 14400, 86399, 86400, 86401, 561677}

DurInit ==
    /\ dur \in {[secs |-> T, nanos |-> n, at |-> "ready", res |-> <<>>] :
                   T \in (0..MaxSecs) \cup SecsSamples, n \in NanosSamples}
    /\ mem = IdleMem
    /\ tm = IdleTm
    /\ scr = IdleScr
    /\ MainIdle

ToSlurmTime ==
    /\ dur.at = "ready"
    /\ dur' = [dur EXCEPT !.at = "done", !.res = to_slurm_time(dur)]
    /\ UNCHANGED <<mem, tm, scr, MainVars>>

DurNext == ToSlurmTime

SpecSlurmTime == DurInit /\ [][DurNext]_vars

-----------------------------------------------------------------------------
(* Properties of parse_memory, checked under SpecMemory *)

\* b = a + 1, on digit sequences, a's trailing nines counted out.
IsSucc(a, b) ==
    \E k \in 0..Len(a) :
        /\ \A i \in (Len(a) - k + 1)..Len(a) : a[i] = 9
        /\ IF k = Len(a)
           THEN b = <<1>> \o Zeros(k)
           ELSE /\ a[Len(a) - k] /= 9
                /\ b = Take(a, Len(a) - k - 1) \o <<a[Len(a) - k] + 1>> \o Zeros(k)

MemAccepted == mem.at = "done" /\ mem.res.ok /\ mem.s /= <<"0">>

MemBytes == Byte_parse_str(WithDefaultUnit(mem.s)).val

OutTag == Last(mem.res.val)

OutNumber == Norm(TextDigits(Front(mem.res.val)))

OutUnitDigits == IF OutTag = "M" THEN 6 ELSE 3

MemGives(s, out) == mem.at = "done" /\ mem.s = s => mem.res = Ok(out)

MemText == trim(WithDefaultUnit(mem.s))

RECURSIVE NumberRun(_)
NumberRun(s) ==
    IF s /= <<>> /\ (IsDigit(Head(s)) \/ Head(s) = ".")
    THEN <<Head(s)>> \o NumberRun(Tail(s)) ELSE <<>>

MemSuffix == LowerText(trim_start(Drop(MemText, Len(NumberRun(MemText)))))

MemNumerator == Norm(TextDigits(SelectSeq(NumberRun(MemText), IsDigit)))

MemScale ==
    LET n == NumberRun(MemText)
    IN  IF \E i \in 1..Len(n) : n[i] = "."
        THEN Len(n) - (CHOOSE i \in 1..Len(n) : n[i] = ".")
        ELSE 0

DecimalSuffixes ==
    {<<"b">>, <<"k">>, <<"k", "b">>, <<"m">>, <<"m", "b">>,
     <<"g">>, <<"g", "b">>, <<"t">>, <<"t", "b">>}

\* The power of ten a decimal suffix stands for.
DecimalExp(sfx) ==
    IF Head(sfx) = "b" THEN 0
    ELSE IF Head(sfx) = "k" THEN 3
    ELSE IF Head(sfx) = "m" THEN 6
    ELSE IF Head(sfx) = "g" THEN 9
    ELSE 12

-----------------------------------------------------------------------------
(* Properties of to_slurm_time, checked under SpecSlurmTime *)

RECURSIVE SplitOn(_, _)
SplitOn(s, sep) ==
    IF \E i \in 1..Len(s) : s[i] = sep
    THEN LET i == CHOOSE j \in 1..Len(s) : s[j] = sep /\ \A k \in 1..(j - 1) : s[k] /= sep
         IN  <<Take(s, i - 1)>> \o SplitOn(Drop(s, i), sep)
    ELSE <<s>>

\* A decimal numeral with no padding: digits, and no leading zero but in "0".
IsPlainNumeral(f) ==
    /\ f /= <<>>
    /\ \A i \in 1..Len(f) : IsDigit(f[i])
    /\ Len(f) > 1 => Head(f) /= "0"

SlurmFields == SplitOn(dur.res, ":")

FieldsAre(vals) ==
    /\ Len(SlurmFields) = Len(vals)
    /\ \A i \in 1..Len(vals) : IsPlainNumeral(SlurmFields[i]) /\ TextNat(SlurmFields[i]) = vals[i]

\* C3: for T >= 1 whole seconds the text is 0:T below a minute, M:S below an
\* hour and H:M:S from an hour on, M and S in 0..59 and H = T div 3600 however
\* large, each field a plain numeral, with no days prefix; 561677 s is 156:1:17.
C3_SlurmTimeFormat ==
    /\ dur.at = "done" /\ dur.secs >= 1 =>
          /\ \A i \in 1..Len(dur.res) : dur.res[i] /= "-"
          /\ dur.secs < 60 => FieldsAre(<<0, dur.secs>>)
          /\ dur.secs >= 60 /\ dur.secs < 3600 =>
                FieldsAre(<<dur.secs \div 60, dur.secs % 60>>)
          /\ dur.secs >= 3600 =>
                FieldsAre(<<dur.secs \div 3600, (dur.secs \div 60) % 60, dur.secs % 60>>)
    /\ dur.at = "done" /\ dur.secs = 561677 =>
          dur.res = <<"1", "5", "6", ":", "1", ":", "1", "7">>

\* C3 witness: 6.5 days came out as 156 hours, not as days and hours.
C3_Witness ==
    /\ dur.at = "done"
    /\ dur.secs = 561677
    /\ dur.res = <<"1", "5", "6", ":", "1", ":", "1", "7">>

\* C4: the text is "0" exactly for the zero Duration, and a non-zero Duration
\* below one second gives "0:1".
C4_ZeroOnlyForZero ==
    dur.at = "done" =>
        /\ dur.res = <<"0">> <=> (dur.secs = 0 /\ dur.nanos = 0)
        /\ dur.secs = 0 /\ dur.nanos > 0 => dur.res = <<"0", ":", "1">>

\* C4 witness: one nanosecond came out as one second.
C4_Witness ==
    /\ dur.at = "done"
    /\ dur.secs = 0
    /\ dur.nanos = 1
    /\ dur.res = <<"0", ":", "1">>

-----------------------------------------------------------------------------
(* Properties of parse_time, checked under SpecTime *)

\* The scheduler's grammar: an optional "<days>-", then one to three numeric
\* fields separated by ':'.
IsSchedulerTime(s) ==
    LET byDash == SplitOn(s, "-")
        fields == SplitOn(byDash[Len(byDash)], ":")
        IsNumeric(f) == f /= <<>> /\ \A i \in 1..Len(f) : IsDigit(f[i])
    IN  /\ Len(byDash) \in {1, 2}
        /\ Len(byDash) = 2 => IsNumeric(byDash[1])
        /\ Len(fields) \in 1..3
        /\ \A i \in 1..Len(fields) : IsNumeric(fields[i])

\* C5: an input in the scheduler's grammar comes back unchanged, the free-form
\* conversion not applied to it.
C5_SchedulerTimeUnchanged ==
    tm.at /= "ready" /\ IsSchedulerTime(tm.s) => tm.res = Ok(tm.s)

\* C5 witness: "3" came back as "3", where the conversion would have made it
\* "0:3" (3 seconds).
C5_Witness ==
    /\ tm.at = "parsed"
    /\ tm.s = <<"3">>
    /\ tm.res = Ok(<<"3">>)
    /\ duration_str_parse(tm.s).ok
    /\ to_slurm_time(duration_str_parse(tm.s).val) = <<"0", ":", "3">>

\* A free-form input: one the free-form parser accepts and the scheduler's
\* grammar does not.
IsFreeForm(s) == ~IsSchedulerTime(s) /\ duration_str_parse(s).ok

\* C6: parsing the result of a free-form input of at least one second again
\* succeeds and returns that result.
C6_ParseTimeIdempotent ==
    /\ tm.at = "parsed" /\ IsFreeForm(tm.s) /\ duration_str_parse(tm.s).val.secs >= 1 =>
          tm.res.ok /\ parse_time(tm.res.val) = tm.res
    /\ tm.at = "reparsed" /\ IsFreeForm(tm.s) /\ duration_str_parse(tm.s).val.secs >= 1 =>
          tm.again = tm.res

\* C6 witness: "1d4s" gave "24:0:4", and "24:0:4" parsed again gave "24:0:4".
C6_Witness ==
    /\ tm.at = "reparsed"
    /\ tm.s = <<"1", "d", "4", "s">>
    /\ tm.res = Ok(<<"2", "4", ":", "0", ":", "4">>)
    /\ tm.again = tm.res

-----------------------------------------------------------------------------
(* make_submission_script applied to one set of arguments, and to the same  *)
(* arguments with the memory "0"                                            *)

Shebangs == {<<"#", "!", "/", "b", "i", "n", "/", "b", "a", "s", "h">>, <<"#", "!", "/", "u", "s", "r", "/", "b", "i", "n", "/", "e", "n", "v", " ", "b", "a", "s", "h">>}

SetOptions == {<<>>, <<"e", "u", "x">>, <<"e", "u", "x", "o", " ", "p", "i", "p", "e", "f", "a", "i", "l">>}

JobNames == {<<"j", "o", "b">>, <<"r", "s", "y", "n", "c", "_", "m", "y", "_", "d", "a", "t", "a">>}

ScriptMemories == {<<"0">>, <<"1", "M">>, <<"5", "6", "0", "K">>, <<"0", "K">>}

ScriptTimes == {<<"5", ":", "5", "6", ":", "0", "0">>, <<"0">>, <<"1", "-", "1", "2">>}

ErrorPaths == {<<"%", "x", ".", "e", "r", "r">>}

OutputPaths == {<<"%", "x", ".", "o", "u", "t">>}

\* One-line commands, and one of two lines.
Commands == {<<"p", "y", "t", "h", "o", "n", " ", "-", "c", " ", "'", "p", "r", "i", "n", "t", "(", "1", "+", "1", ")", "'">>, <<"l", "s">>, <<"c", "d", " ", "/", "t", "m", "p">> \o <<NL>> \o <<"l", "s">>}

ScriptInputs ==
    [shebang : Shebangs, set : SetOptions, name : JobNames, memory : ScriptMemories,
     time : ScriptTimes, error : ErrorPaths, output : OutputPaths, cmd : Commands]

Render(in) ==
    make_submission_script(in.shebang, in.set, in.name, in.memory, in.time,
                           in.error, in.output, in.cmd)

ScrInit ==
    /\ scr \in {[in |-> i, out |-> NoScript, outDefault |-> NoScript] : i \in ScriptInputs}
    /\ mem = IdleMem
    /\ tm = IdleTm
    /\ dur = IdleDur
    /\ MainIdle

RenderScript ==
    /\ scr.out = NoScript
    /\ scr' = [scr EXCEPT !.out = Render(scr.in)]
    /\ UNCHANGED <<mem, tm, dur, MainVars>>

RenderDefaultMemory ==
    /\ scr.outDefault = NoScript
    /\ scr' = [scr EXCEPT !.outDefault = Render([scr.in EXCEPT !.memory = <<"0">>])]
    /\ UNCHANGED <<mem, tm, dur, MainVars>>

ScrNext == RenderScript \/ RenderDefaultMemory

SpecScript == ScrInit /\ [][ScrNext]_vars

-----------------------------------------------------------------------------
(* Properties of make_submission_script, checked under SpecScript *)

IsMemoryLine(line) == StartsWith(line, MemDirective)

MemoryLines(text) == {i \in 1..Len(SplitLines(text)) : IsMemoryLine(SplitLines(text)[i])}

\* C8: the script for a memory other than "0" has exactly one memory-directive
\* line, and the script for the same arguments with memory "0" is that script
\* with that one line deleted: no memory-directive line, one line fewer, every
\* other line the same and in the same order.
C8_ZeroMemoryDropsOneLine ==
    scr.out /= NoScript /\ scr.outDefault /= NoScript /\ scr.in.memory /= <<"0">> =>
        /\ Cardinality(MemoryLines(scr.out)) = 1
        /\ MemoryLines(scr.outDefault) = {}
        /\ Len(SplitLines(scr.outDefault)) = Len(SplitLines(scr.out)) - 1
        /\ \E i \in MemoryLines(scr.out) :
              SplitLines(scr.outDefault) = RemoveAt(SplitLines(scr.out), i)

\* C8 witness: both scripts were rendered for a memory of 560K, one holding the
\* line "#SBATCH --mem=560K" and the other one line shorter.
C8_Witness ==
    /\ scr.out /= NoScript
    /\ scr.outDefault /= NoScript
    /\ scr.in.memory = <<"5", "6", "0", "K">>
    /\ \E i \in 1..Len(SplitLines(scr.out)) :
          SplitLines(scr.out)[i] = MemDirective \o scr.in.memory
    /\ Len(SplitLines(scr.outDefault)) = Len(SplitLines(scr.out)) - 1

\* The lines the template gives, the command's own lines last.
ExpectedLines(in) ==
    <<in.shebang, JobNameDirective \o in.name>>
    \o (IF in.memory = <<"0">> THEN <<>> ELSE <<MemDirective \o in.memory>>)
    \o <<TimeDirective \o in.time, ErrorDirective \o in.error, OutputDirective \o in.output,
         IF in.set = <<>> THEN <<>> ELSE SetPrefix \o in.set,
         <<>>>>
    \o SplitLines(in.cmd)

\* C9: the script is, in this order, the shebang line, the job-name, memory,
\* time, error-path and output-path directive lines, the shell-options line
\* ("set -<opts>", or an empty line for empty options), one empty line, the
\* command and a closing newline; only the memory line is ever left out.
C9_ScriptLayout ==
    scr.out /= NoScript =>
        /\ Last(scr.out) = NL
        /\ SplitLines(Front(scr.out)) = ExpectedLines(scr.in)

\* C9 witness: a script rendered with empty shell options keeps the empty
\* shell-options line, followed by the empty line before the command.
C9_Witness ==
    /\ scr.out /= NoScript
    /\ scr.in.set = <<>>
    /\ scr.in.memory /= <<"0">>
    /\ SplitLines(scr.out)[7] = <<>>
    /\ SplitLines(scr.out)[8] = <<>>
    /\ SplitLines(scr.out)[9] = SplitLines(scr.in.cmd)[1]

-----------------------------------------------------------------------------
(* cli.rs: the Cli struct, as clap fills it *)

\* "1G"
DefaultMemory == <<"1", "G">>

\* "1d"
DefaultTime == <<"1", "d">>

\* "#!/usr/bin/env bash"
DefaultShebang == <<"#", "!", "/", "u", "s", "r", "/", "b", "i", "n", "/", "e", "n", "v", " ", "b", "a", "s", "h">>

\* "euxo pipefail"
DefaultSet == <<"e", "u", "x", "o", " ", "p", "i", "p", "e", "f", "a", "i", "l">>

\* "%x.out"
DefaultOutput == <<"%", "x", ".", "o", "u", "t">>

\* "%x.err"
DefaultError == <<"%", "x", ".", "e", "r", "r">>

\* "auto"
AutoShell == <<"a", "u", "t", "o">>

OrDefault(opt, d) == IF opt.some THEN opt.val ELSE d

\* The value parsers' errors passed over, the text as typed kept.
Cli_parse_unchecked(r) ==
    LET m == parse_memory(OrDefault(r.memory, DefaultMemory))
        t == parse_time(OrDefault(r.time, DefaultTime))
    IN  Ok([name |-> r.name, command |-> r.command, remainder |-> r.remainder,
            output |-> DefaultOutput, error |-> DefaultError,
            memory |-> IF m.ok THEN m.val ELSE OrDefault(r.memory, DefaultMemory),
            time |-> IF t.ok THEN t.val ELSE OrDefault(r.time, DefaultTime),
            shebang |-> DefaultShebang, set |-> DefaultSet,
            dry_run |-> r.dry_run, test_only |-> r.test_only,
            interactive |-> r.interactive, shell |-> r.shell])

\* Cli::parse(): parse_memory and parse_time are the value parsers of --mem and
\* --time, run on the default too; an error of either ends the parse.
Cli_parse(r) ==
    LET m == parse_memory(OrDefault(r.memory, DefaultMemory))
        t == parse_time(OrDefault(r.time, DefaultTime))
    IN  IF ~m.ok THEN Err([arg |-> "--mem", cause |-> m.err])
        ELSE IF ~t.ok THEN Err([arg |-> "--time", cause |-> t.err])
        ELSE Ok([name |-> r.name, command |-> r.command, remainder |-> r.remainder,
                 output |-> DefaultOutput, error |-> DefaultError,
                 memory |-> m.val, time |-> t.val,
                 shebang |-> DefaultShebang, set |-> DefaultSet,
                 dry_run |-> r.dry_run, test_only |-> r.test_only,
                 interactive |-> r.interactive, shell |-> r.shell])

\* "srun --pty "
SrunPty == <<"s", "r", "u", "n", " ", "-", "-", "p", "t", "y", " ">>

\* " -l"
LoginFlag == <<" ", "-", "l">>

CommandRequired ==
    "Command is required for batch jobs. Use --interactive for interactive sessions."

\* The shell session started in batch mode too when no command is given.
validate_and_get_command_shell_default(a, userShell) ==
    Ok(IF a.command.some THEN a.command.val
       ELSE SrunPty \o (IF a.shell = AutoShell THEN userShell ELSE a.shell) \o LoginFlag)

\* userShell is what get_user_shell() finds on the machine.
validate_and_get_command(a, userShell) ==
    IF a.interactive
    THEN Ok(IF a.command.some THEN a.command.val
            ELSE SrunPty \o (IF a.shell = AutoShell THEN userShell ELSE a.shell) \o LoginFlag)
    ELSE IF a.command.some THEN Ok(a.command.val)
    ELSE Err(CommandRequired)

-----------------------------------------------------------------------------
(* main.rs *)

\* "--test-only"
TestOnlyFlag == <<"-", "-", "t", "e", "s", "t", "-", "o", "n", "l", "y">>

\* "--job-name"
JobNameFlag == <<"-", "-", "j", "o", "b", "-", "n", "a", "m", "e">>

\* "--mem"
MemFlag == <<"-", "-", "m", "e", "m">>

\* "--time"
TimeFlag == <<"-", "-", "t", "i", "m", "e">>

RECURSIVE JoinWith(_, _)
JoinWith(parts, sep) ==
    IF parts = <<>> THEN <<>>
    ELSE IF Len(parts) = 1 THEN parts[1]
    ELSE parts[1] \o sep \o JoinWith(Tail(parts), sep)

\* The pass-through options alone, the flag never added.
sbatch_opts_as_given(a) == a.remainder

sbatch_opts(a) == IF a.test_only THEN Append(a.remainder, TestOnlyFlag) ELSE a.remainder

batch_test_only(a) ==
    a.test_only \/ \E i \in 1..Len(a.remainder) : a.remainder[i] = TestOnlyFlag

\* The memory option left out for "0", as the script leaves its line out.
salloc_args_skip_zero_memory(a, cmd) ==
    <<JobNameFlag, a.name>>
        \o (IF a.memory = <<"0">> THEN <<>> ELSE <<MemFlag, a.memory>>)
        \o <<TimeFlag, a.time>> \o a.remainder \o <<cmd>>

salloc_args(a, cmd) ==
    <<JobNameFlag, a.name, MemFlag, a.memory, TimeFlag, a.time>> \o a.remainder \o <<cmd>>

Succeeded == [kind |-> "ok"]

Failed(msg) == [kind |-> "error", msg |-> msg]

\* How a spawned process can end: an exit code, or a signal (no code).
ExitStatuses ==
    {[exited |-> TRUE, code |-> 0, signal |-> FALSE],
     [exited |-> TRUE, code |-> 1, signal |-> FALSE],
     [exited |-> TRUE, code |-> 0, signal |-> TRUE]}

\* The status of a process not waited for, or whose wait failed.
NotExited == [exited |-> FALSE, code |-> 0, signal |-> FALSE]

\* What get_user_shell() can find.
UserShells == {<<"/", "b", "i", "n", "/", "z", "s", "h">>, <<"b", "a", "s", "h">>}

\* Every exit taken for a success.
exit_status_success_always(status) == TRUE

\* ExitStatus::success(): exit code 0, not a signal
exit_status_success(status) == ~status.signal /\ status.code = 0

Return(result) ==
    /\ pc' = "returned"
    /\ outcome' = result

\* main, line 15: Cli::parse()
CliParse ==
    /\ pc = "start"
    /\ LET a == Cli_parse(raw)
       IN  IF a.ok
           THEN /\ args' = a.val
                /\ pc' = "validate"
                /\ UNCHANGED outcome
           ELSE /\ pc' = "exited"
                /\ outcome' = [kind |-> "usage_error", msg |-> a.err]
                /\ UNCHANGED args
    /\ UNCHANGED <<mem, tm, dur, scr, raw, command, script, spawned, printed, log>>

\* main, lines 24-31
ValidateCommand ==
    /\ pc = "validate"
    /\ \E sh \in UserShells :
          LET c == validate_and_get_command(args, sh)
          IN  IF c.ok
              THEN /\ command' = c.val
                   /\ pc' = IF args.interactive THEN "interactive" ELSE "batch"
                   /\ log' = IF args.interactive /\ ~args.command.some /\ args.shell = AutoShell
                             THEN Append(log, [level |-> "info", what |-> "inferred shell"])
                             ELSE log
                   /\ UNCHANGED outcome
              ELSE /\ Return(Failed(c.err))
                   /\ UNCHANGED <<command, log>>
    /\ UNCHANGED <<mem, tm, dur, scr, raw, args, script, spawned, printed>>

\* handle_batch_job, lines 35-60
BatchRender ==
    /\ pc = "batch"
    /\ script' = make_submission_script(args.shebang, args.set, args.name, args.memory,
                                        args.time, args.error, args.output, command)
    /\ pc' = "batch_submit"
    /\ UNCHANGED <<mem, tm, dur, scr, raw, args, command, spawned, printed, log, outcome>>

\* "sbatch"
SbatchWord == <<"s", "b", "a", "t", "c", "h">>

\* "salloc"
SallocWord == <<"s", "a", "l", "l", "o", "c">>

\* " <script>"
ScriptWord == <<" ", "<", "s", "c", "r", "i", "p", "t", ">">>

\* "=====<script>====="
ScriptRule == <<"=", "=", "=", "=", "=", "<", "s", "c", "r", "i", "p", "t", ">", "=", "=", "=", "=", "=">>

\* The dry-run flag not consulted.
IsDryRun_ignored(a) == FALSE

IsDryRun(a) == a.dry_run

\* handle_batch_job, lines 62-70
BatchDryRun ==
    /\ pc = "batch_submit"
    /\ IsDryRun(args)
    /\ log' = Append(log, [level |-> "info", what |-> "dry run"])
    /\ LET opts == JoinWith(sbatch_opts(args), <<" ">>)
       IN  printed' = printed
                \o <<SbatchWord \o (IF opts = <<>> THEN <<>> ELSE <<" ">> \o opts) \o ScriptWord,
                     ScriptRule \o <<NL>> \o script \o ScriptRule>>
    /\ Return(Succeeded)
    /\ UNCHANGED <<mem, tm, dur, scr, raw, args, command, script, spawned>>

\* handle_batch_job, lines 72-78
BatchSpawn ==
    /\ pc = "batch_submit"
    /\ ~IsDryRun(args)
    /\ \E started \in BOOLEAN :
          IF started
          THEN /\ spawned' = Append(spawned, [prog |-> "sbatch", argv |-> sbatch_opts(args),
                                              stdin |-> <<>>, status |-> NotExited])
               /\ pc' = "batch_write"
               /\ UNCHANGED outcome
          ELSE /\ Return(Failed("Failed to spawn sbatch process"))
               /\ UNCHANGED spawned
    /\ UNCHANGED <<mem, tm, dur, scr, raw, args, command, script, printed, log>>

\* handle_batch_job, lines 80-88
BatchWrite ==
    /\ pc = "batch_write"
    /\ \E written \in BOOLEAN :
          IF written
          THEN /\ spawned' = [spawned EXCEPT ![Len(spawned)].stdin = script]
               /\ pc' = "batch_wait"
               /\ UNCHANGED outcome
          ELSE /\ Return(Failed("Failed to write to sbatch process' stdin"))
               /\ UNCHANGED spawned
    /\ UNCHANGED <<mem, tm, dur, scr, raw, args, command, script, printed, log>>

\* handle_batch_job, lines 89-120; jobLine: sbatch's stderr holds a line
\* starting "sbatch: Job"
BatchWait ==
    /\ pc = "batch_wait"
    /\ \E waited \in BOOLEAN, status \in ExitStatuses, jobLine \in BOOLEAN :
          /\ spawned' = [spawned EXCEPT ![Len(spawned)].status =
                                            IF waited THEN status ELSE NotExited]
          /\ IF ~waited
             THEN /\ Return(Failed("Failed to execute sbatch"))
                  /\ UNCHANGED log
             ELSE IF status.signal
             THEN /\ Return(Failed("Process terminated by signal"))
                  /\ UNCHANGED log
             ELSE IF status.code = 0
             THEN /\ log' = IF batch_test_only(args)
                            THEN IF jobLine
                                 THEN Append(log, [level |-> "info", what |-> "sbatch job line"])
                                 ELSE log
                            ELSE Append(log, [level |-> "info", what |-> "sbatch stdout"])
                  /\ Return(Succeeded)
             ELSE /\ log' = Append(log, [level |-> "error", what |-> "sbatch exit code"])
                  /\ Return(Succeeded)
    /\ UNCHANGED <<mem, tm, dur, scr, raw, args, command, script, printed>>

\* handle_interactive_job, lines 124-142
InteractiveDryRun ==
    /\ pc = "interactive"
    /\ IsDryRun(args)
    /\ log' = Append(log, [level |-> "info", what |-> "dry run"])
    /\ printed' = Append(printed, SallocWord \o <<" ">>
                                  \o JoinWith(salloc_args(args, command), <<" ">>))
    /\ Return(Succeeded)
    /\ UNCHANGED <<mem, tm, dur, scr, raw, args, command, script, spawned>>

\* handle_interactive_job, lines 124-137 and 143-170.  output() can fail
\* before the process starts or while waiting for it.
InteractiveTestOnly ==
    /\ pc = "interactive"
    /\ ~IsDryRun(args)
    /\ args.test_only
    /\ \E started \in BOOLEAN, waited \in BOOLEAN, status \in ExitStatuses :
          /\ spawned' = IF started
                         THEN Append(spawned,
                                     [prog |-> "salloc",
                                      argv |-> <<TestOnlyFlag>> \o salloc_args(args, command),
                                      stdin |-> <<>>,
                                      status |-> IF waited THEN status ELSE NotExited])
                         ELSE spawned
          /\ IF ~started \/ ~waited
             THEN /\ Return(Failed("Failed to execute salloc --test-only"))
                  /\ UNCHANGED log
             ELSE IF status.signal
             THEN /\ Return(Failed("Process terminated by signal"))
                  /\ UNCHANGED log
             ELSE IF status.code = 0
             THEN /\ log' = Append(log, [level |-> "info", what |-> "would be scheduled"])
                  /\ Return(Succeeded)
             ELSE /\ log' = Append(log, [level |-> "error", what |-> "salloc exit code"])
                  /\ Return(Succeeded)
    /\ UNCHANGED <<mem, tm, dur, scr, raw, args, command, script, printed>>

\* handle_interactive_job, lines 124-137 and 171-183.  status() can fail
\* before the process starts or while waiting for it.
InteractiveRun ==
    /\ pc = "interactive"
    /\ ~IsDryRun(args)
    /\ ~args.test_only
    /\ log' = Append(log, [level |-> "info", what |-> "starting interactive job"])
    /\ \E started \in BOOLEAN, waited \in BOOLEAN, status \in ExitStatuses :
          /\ spawned' = IF started
                         THEN Append(spawned, [prog |-> "salloc",
                                               argv |-> salloc_args(args, command),
                                               stdin |-> <<>>,
                                               status |-> IF waited THEN status ELSE NotExited])
                         ELSE spawned
          /\ IF ~started \/ ~waited
             THEN Return(Failed("Failed to execute salloc"))
             ELSE IF exit_status_success(status)
             THEN Return(Succeeded)
             ELSE Return(Failed("Interactive job failed"))
    /\ UNCHANGED <<mem, tm, dur, scr, raw, args, command, script, printed>>

-----------------------------------------------------------------------------
(* One run of the program on one command line *)

RawMemories ==
    {Absent, Some(<<"0">>), Some(<<"4", "m", "b">>), Some(<<"0", ".", "5", "6", "M">>),
     Some(<<"5", "z">>)}

RawTimes ==
    {Absent, Some(<<"3">>), Some(<<"5", "m", "3">>), Some(<<"1", "-", "1", "2">>),
     Some(<<"1", ".", "5", "d">>)}

RawCommands == {Absent, Some(<<"l", "s", " ", "-", "l">>)}

\* The sbatch or salloc options given after "--".
RawRemainders == {<<>>, <<<<"-", "c">>, <<"8">>>>, <<TestOnlyFlag>>}

RawShells == {AutoShell, <<"z", "s", "h">>}

RawCommandLines ==
    [name : {<<"j", "o", "b">>}, command : RawCommands, remainder : RawRemainders,
     memory : RawMemories, time : RawTimes, dry_run : BOOLEAN, test_only : BOOLEAN,
     interactive : BOOLEAN, shell : RawShells]

Init ==
    /\ mem = IdleMem
    /\ tm = IdleTm
    /\ dur = IdleDur
    /\ scr = IdleScr
    /\ pc = "start"
    /\ raw \in RawCommandLines
    /\ args = NoArgs
    /\ command = <<>>
    /\ script = NoScript
    /\ spawned = <<>>
    /\ printed = <<>>
    /\ log = <<>>
    /\ outcome = NoOutcome

Next ==
    \/ CliParse
    \/ ValidateCommand
    \/ BatchRender
    \/ BatchDryRun
    \/ BatchSpawn
    \/ BatchWrite
    \/ BatchWait
    \/ InteractiveDryRun
    \/ InteractiveTestOnly
    \/ InteractiveRun

Spec == Init /\ [][Next]_vars

-----------------------------------------------------------------------------
(* Properties of main, checked under Spec *)

NormalizationFails ==
    \/ ~parse_memory(OrDefault(raw.memory, DefaultMemory)).ok
    \/ ~parse_time(OrDefault(raw.time, DefaultTime)).ok

\* C10: when the --mem or the --time value fails normalization the run ends in
\* argument parsing with an error: in no state after the parse is a script
\* rendered or a process spawned.
C10_NoSubmissionAfterParseError ==
    pc /= "start" /\ NormalizationFails =>
        /\ pc = "exited"
        /\ outcome.kind = "usage_error"
        /\ script = NoScript
        /\ spawned = <<>>
        /\ printed = <<>>

\* C10 witness: the run on --mem 5z ended in the parse, nothing rendered or
\* spawned.
C10_Witness ==
    /\ pc = "exited"
    /\ raw.memory = Some(<<"5", "z">>)
    /\ outcome.kind = "usage_error"
    /\ script = NoScript
    /\ spawned = <<>>

-----------------------------------------------------------------------------
(* Errors of parse_time, checked under SpecTime *)

\* A numeral followed by sep, or nothing.
IsOptionalField(f, sep) ==
    \/ f = <<>>
    \/ /\ Len(f) >= 2
       /\ f[Len(f)] = sep
       /\ \A i \in 1..(Len(f) - 1) : IsDigit(f[i])

\* The grammar of the fast path: an optional "<days>-", then zero to two
\* numerals each closed by ':', then an optional last numeral.
InSchedulerGrammar(s) ==
    \E i, j, k \in 0..Len(s) :
        /\ i <= j /\ j <= k
        /\ IsOptionalField(SubSeq(s, 1, i), "-")
        /\ IsOptionalField(SubSeq(s, i + 1, j), ":")
        /\ IsOptionalField(SubSeq(s, j + 1, k), ":")
        /\ \A n \in (k + 1)..Len(s) : IsDigit(s[n])

\* C11: an input that is neither a scheduler time nor a free-form duration
\* gives an error and no value; the message is the input, then
\* " is not a valid time: ", then the free-form parser's explanation.  "1.5d"
\* is such an input: it is not read as one day.
C11_InvalidTimeIsAnError ==
    /\ tm.at /= "ready" /\ ~InSchedulerGrammar(tm.s) /\ ~duration_str_parse(tm.s).ok =>
          /\ ~tm.res.ok
          /\ Take(tm.res.err.text, Len(tm.s)) = tm.s
          /\ Drop(tm.res.err.text, Len(tm.s)) = <<" ", "i", "s", " ", "n", "o", "t", " ", "a", " ", "v", "a", "l", "i", "d", " ", "t", "i", "m", "e", ":", " ">>
          /\ tm.res.err.cause = duration_str_parse(tm.s).err
    /\ tm.at /= "ready" /\ tm.s = <<"1", ".", "5", "d">> =>
          /\ ~tm.res.ok
          /\ tm.res /= Ok(<<"2", "4", ":", "0", ":", "0">>)

\* C11 witness: "1.5d" was parsed and gave the error naming it.
C11_Witness ==
    /\ tm.at = "parsed"
    /\ tm.s = <<"1", ".", "5", "d">>
    /\ ~tm.res.ok
    /\ Take(tm.res.err.text, 4) = tm.s

-----------------------------------------------------------------------------
(* Errors of parse_memory, checked under SpecMemory *)

\* Digits, with a '.' and more digits after them or not.
IsDecimalNumber(n) ==
    /\ n /= <<>>
    /\ IsDigit(n[1])
    /\ IsDigit(n[Len(n)])
    /\ Cardinality({i \in 1..Len(n) : n[i] = "."}) <= 1

\* The unit suffixes read, in lower case: none, b, and k, m, g, t alone or
\* followed by b, i or ib.
RecognizedSuffixes ==
    {<<>>, <<"b">>}
    \cup {<<p>> \o r : p \in {"k", "m", "g", "t"},
                       r \in {<<>>, <<"b">>, <<"i">>, <<"i", "b">>}}

\* The suffix as typed, its case kept.
MemSuffixTyped == trim_start(Drop(MemText, Len(NumberRun(MemText))))

\* C12: a --mem value other than "0" whose number cannot be read or whose
\* unit suffix is not a unit gives an error and no value; when the suffix
\* starts with a character that starts no unit, the message starts "the
\* character '<that character>' is incorrect", as for 5z.
C12_InvalidMemoryIsAnError ==
    /\ mem.at = "done" /\ mem.s /= <<"0">>
          /\ (~IsDecimalNumber(NumberRun(MemText)) \/ MemSuffix \notin RecognizedSuffixes) =>
          ~mem.res.ok
    /\ mem.at = "done" /\ mem.s /= <<"0">> /\ IsDecimalNumber(NumberRun(MemText))
          /\ MemSuffix /= <<>> /\ Head(MemSuffix) \notin {"b", "k", "m", "g", "t"} =>
          /\ ~mem.res.ok
          /\ Take(mem.res.err, 30)
                = <<"t", "h", "e", " ", "c", "h", "a", "r", "a", "c", "t", "e", "r", " ", "'">> \o <<Head(MemSuffixTyped)>> \o <<"'", " ", "i", "s", " ", "i", "n", "c", "o", "r", "r", "e", "c", "t">>
    /\ mem.at = "done" /\ mem.s = <<"5", "z">> =>
          /\ ~mem.res.ok
          /\ Take(mem.res.err, 30) = <<"t", "h", "e", " ", "c", "h", "a", "r", "a", "c", "t", "e", "r", " ", "'", "z", "'", " ", "i", "s", " ", "i", "n", "c", "o", "r", "r", "e", "c", "t">>

\* C12 witness: 5z was parsed and gave the error naming z.
C12_Witness ==
    /\ mem.at = "done"
    /\ mem.s = <<"5", "z">>
    /\ ~mem.res.ok
    /\ mem.res.err[16] = "z"

-----------------------------------------------------------------------------
(* The default unit of parse_memory, checked under SpecMemory *)

AsciiLetters ==
    {"a", "b", "c", "d", "e", "f", "g", "h", "i", "j", "k", "l", "m", "n", "o", "p", "q", "r", "s", "t", "u", "v", "w", "x", "y", "z",
     "A", "B", "C", "D", "E", "F", "G", "H", "I", "J", "K", "L", "M", "N", "O", "P", "Q", "R", "S", "T", "U", "V", "W", "X", "Y", "Z"}

HasNoLetter(s) == \A i \in 1..Len(s) : s[i] \notin AsciiLetters

\* C13: a --mem value with no letter in it, other than "0", gives exactly what
\* the same value followed by M gives, value or error; 5000 gives 5000M.
C13_BareNumberIsMegabytes ==
    /\ mem.at = "done" /\ mem.s /= <<"0">> /\ HasNoLetter(mem.s) =>
          mem.res = parse_memory(mem.s \o <<"M">>)
    /\ MemGives(<<"5", "0", "0", "0">>, <<"5", "0", "0", "0", "M">>)

\* C13 witness: 5000 was parsed and gave 5000M.
C13_Witness ==
    /\ mem.at = "done"
    /\ mem.s = <<"5", "0", "0", "0">>
    /\ HasNoLetter(mem.s)
    /\ mem.res = Ok(<<"5", "0", "0", "0", "M">>)

-----------------------------------------------------------------------------
(* Numerals with no unit in parse_time, checked under SpecTime *)

\* The digits a text ends with.
RECURSIVE TrailingDigits(_)
TrailingDigits(s) ==
    IF s /= <<>> /\ IsDigit(s[Len(s)])
    THEN TrailingDigits(SubSeq(s, 1, Len(s) - 1)) \o <<s[Len(s)]>>
    ELSE <<>>

\* A text ending in a numeral that follows a unit letter directly.
EndsInBareNumeral(s) ==
    LET n == TrailingDigits(s)
    IN  /\ n /= <<>>
        /\ Len(s) > Len(n)
        /\ s[Len(s) - Len(n)] \in AsciiLetters

IsBareNumeral(s) == s /= <<>> /\ \A i \in 1..Len(s) : IsDigit(s[i])

\* C14: a numeral with no unit that ends a free-form duration, after a
\* component with a unit, counts seconds: the result is the one for the same
\* text with s appended, and 5m3 gives 5:3.  A numeral alone is returned as
\* typed: 3 gives 3.
C14_TrailingNumeralIsSeconds ==
    /\ tm.at /= "ready" /\ EndsInBareNumeral(tm.s) =>
          /\ tm.res.ok <=> parse_time(tm.s \o <<"s">>).ok
          /\ tm.res.ok => tm.res = parse_time(tm.s \o <<"s">>)
    /\ tm.at /= "ready" /\ tm.s = <<"5", "m", "3">> => tm.res = Ok(<<"5", ":", "3">>)
    /\ tm.at /= "ready" /\ IsBareNumeral(tm.s) => tm.res = Ok(tm.s)

\* C14 witness: 5m3 was parsed and gave 5:3.
C14_Witness ==
    /\ tm.at = "parsed"
    /\ tm.s = <<"5", "m", "3">>
    /\ EndsInBareNumeral(tm.s)
    /\ tm.res = Ok(<<"5", ":", "3">>)

-----------------------------------------------------------------------------
(* The command main runs, checked under Spec *)

\* validate_and_get_command has returned.
Validated == pc \notin {"start", "validate", "exited"}

\* C15: a command given on the command line is the command used, in batch
\* and in interactive mode.  With none given, batch mode ends with the error
\* "Command is required for batch jobs. Use --interactive for interactive
\* sessions.", no script rendered and no process spawned; interactive mode
\* uses "srun --pty <shell> -l", <shell> being the --shell value unless that
\* is "auto".
C15_CommandValidation ==
    /\ Validated /\ raw.command.some =>
          /\ command = raw.command.val
          /\ outcome.kind = "error" =>
                outcome.msg /= "Command is required for batch jobs. Use --interactive for interactive sessions."
    /\ Validated /\ ~raw.command.some /\ ~raw.interactive =>
          /\ pc = "returned"
          /\ outcome = [kind |-> "error",
                        msg |-> "Command is required for batch jobs. Use --interactive for interactive sessions."]
          /\ script = <<>>
          /\ spawned = <<>>
          /\ printed = <<>>
    /\ Validated /\ ~raw.command.some /\ raw.interactive =>
          /\ Take(command, 11) = <<"s", "r", "u", "n", " ", "-", "-", "p", "t", "y", " ">>
          /\ Drop(command, Len(command) - 3) = <<" ", "-", "l">>
          /\ raw.shell /= <<"a", "u", "t", "o">> =>
                command = <<"s", "r", "u", "n", " ", "-", "-", "p", "t", "y", " ">> \o raw.shell \o <<" ", "-", "l">>

\* C15 witness: a batch run with no command ended with the error, nothing
\* rendered or spawned.
C15_Witness ==
    /\ pc = "returned"
    /\ ~raw.command.some
    /\ ~raw.interactive
    /\ outcome.kind = "error"
    /\ script = <<>>
    /\ spawned = <<>>

-----------------------------------------------------------------------------
(* Dry runs, checked under Spec *)

\* The run got past argument parsing and command validation.
RunHandled ==
    /\ pc = "returned"
    /\ raw.command.some \/ raw.interactive

C16_WitnessInteractive ==
    /\ pc = "returned"
    /\ raw.dry_run
    /\ raw.interactive
    /\ outcome = [kind |-> "ok"]
    /\ spawned = <<>>

-----------------------------------------------------------------------------
(* Test-only runs, checked under Spec *)

\* C17: in a run with --test-only and without --dry-run every process spawned
\* has "--test-only" among its arguments: sbatch is given the pass-through
\* options and then the flag, salloc the flag as its first argument.
C17_TestOnlyAlwaysFlagged ==
    raw.test_only /\ ~raw.dry_run =>
        \A i \in 1..Len(spawned) :
            /\ \E n \in 1..Len(spawned[i].argv) : spawned[i].argv[n] = <<"-", "-", "t", "e", "s", "t", "-", "o", "n", "l", "y">>
            /\ spawned[i].prog = "sbatch" =>
                  spawned[i].argv = raw.remainder \o <<<<"-", "-", "t", "e", "s", "t", "-", "o", "n", "l", "y">>>>
            /\ spawned[i].prog = "salloc" =>
                  spawned[i].argv[1] = <<"-", "-", "t", "e", "s", "t", "-", "o", "n", "l", "y">>
            /\ spawned[i].prog \in {"sbatch", "salloc"}

\* C17 witness: a test-only batch run with pass-through options spawned
\* sbatch, the flag last among its arguments.
C17_Witness ==
    /\ raw.test_only
    /\ ~raw.dry_run
    /\ raw.remainder /= <<>>
    /\ Len(spawned) = 1
    /\ spawned[1].prog = "sbatch"
    /\ spawned[1].argv[Len(spawned[1].argv)] = <<"-", "-", "t", "e", "s", "t", "-", "o", "n", "l", "y">>

\* A test-only interactive run spawned salloc, the flag first.
C17_WitnessInteractive ==
    /\ raw.test_only
    /\ ~raw.dry_run
    /\ Len(spawned) = 1
    /\ spawned[1].prog = "salloc"
    /\ spawned[1].argv[1] = <<"-", "-", "t", "e", "s", "t", "-", "o", "n", "l", "y">>

-----------------------------------------------------------------------------
(* Interactive runs, checked under Spec *)

\* The arguments of a salloc process, the flag of a test-only run taken off.
SallocArgv(p) ==
    IF raw.test_only THEN Tail(p.argv) ELSE p.argv

-----------------------------------------------------------------------------
(* The amount parse_memory asks for, checked under SpecMemory *)

\* a < b, for numbers written as digits with no leading zero.
DigitsLess(a, b) ==
    \/ Len(a) < Len(b)
    \/ /\ Len(a) = Len(b)
       /\ \E i \in 1..Len(a) :
             /\ a[i] < b[i]
             /\ \A j \in 1..(i - 1) : a[j] = b[j]

\* d - 1, for d at least 1.
RECURSIVE DigitsPred(_)
DigitsPred(d) ==
    IF d[Len(d)] > 0
    THEN Norm(SubSeq(d, 1, Len(d) - 1) \o <<d[Len(d)] - 1>>)
    ELSE Norm(DigitsPred(SubSeq(d, 1, Len(d) - 1)) \o <<9>>)

\* n units of the output in bytes: n times 10^3 (K) or 10^6 (M).
InOutUnits(n) == IF n = <<>> THEN <<>> ELSE n \o Zeros(OutUnitDigits)

-----------------------------------------------------------------------------
(* How the scheduler's exit ends the run, checked under Spec *)

\* A batch run that entered handle_batch_job and has returned.
BatchReturned == pc = "returned" /\ ~raw.interactive /\ raw.command.some

\* What went wrong with sbatch, read off the record of the processes.
SpawnFailed == spawned = <<>>

WriteFailed == Len(spawned) = 1 /\ spawned[1].stdin /= script

WaitFailed == Len(spawned) = 1 /\ spawned[1].stdin = script /\ ~spawned[1].status.exited

KilledBySignal == Len(spawned) = 1 /\ spawned[1].status.exited /\ spawned[1].status.signal

ExitedWith(codes) ==
    /\ Len(spawned) = 1
    /\ spawned[1].status.exited
    /\ ~spawned[1].status.signal
    /\ spawned[1].status.code \in codes

HasErrorLog == \E i \in 1..Len(log) : log[i].level = "error"

\* The interactive run that is neither a dry run nor a test-only run.
PlainInteractiveReturned ==
    pc = "returned" /\ raw.interactive /\ ~raw.dry_run /\ ~raw.test_only

\* A non-zero exit code of sbatch is logged as an error and the run succeeds.
NonZeroExitOnlyLogged ==
    BatchReturned /\ ~raw.dry_run /\ ExitedWith({1}) =>
        outcome = [kind |-> "ok"] /\ HasErrorLog

\* Any exit of salloc that is not a success makes the plain interactive run
\* fail, and a success makes it succeed.
InteractiveFailsOnBadExit ==
    /\ PlainInteractiveReturned /\ (ExitedWith({1}) \/ KilledBySignal) =>
          outcome = [kind |-> "error", msg |-> "Interactive job failed"]
    /\ PlainInteractiveReturned /\ ExitedWith({0}) => outcome = [kind |-> "ok"]

\* C20, as stated: a non-zero sbatch exit code is only logged and the batch
\* run succeeds; a batch run fails only when sbatch was killed by a signal,
\* could not be spawned, or could not be written to; a plain interactive run
\* fails on any unsuccessful salloc exit.
C20_AsStated ==
    /\ NonZeroExitOnlyLogged
    /\ BatchReturned /\ ~raw.dry_run /\ outcome.kind = "error" =>
          KilledBySignal \/ SpawnFailed \/ WriteFailed
    /\ InteractiveFailsOnBadExit

\* C20, amended: a non-zero sbatch exit code is only logged and the batch run
\* succeeds; a batch run fails exactly when sbatch was killed by a signal,
\* could not be spawned, could not be written to, or could not be waited
\* for; a plain interactive run fails on any unsuccessful salloc exit.
C20_ExitHandling ==
    /\ NonZeroExitOnlyLogged
    /\ BatchReturned /\ ~raw.dry_run =>
          (outcome.kind = "error" <=>
              KilledBySignal \/ SpawnFailed \/ WriteFailed \/ WaitFailed)
    /\ BatchReturned /\ ~raw.dry_run /\ WaitFailed =>
          outcome = [kind |-> "error", msg |-> "Failed to execute sbatch"]
    /\ InteractiveFailsOnBadExit

\* C20 witness: sbatch exited with code 1; the error was logged and the run
\* returned success.
C20_Witness ==
    /\ BatchReturned
    /\ ExitedWith({1})
    /\ HasErrorLog
    /\ outcome = [kind |-> "ok"]

\* The wait for sbatch failed after the script was written, and the run
\* returned an error.
C20_WitnessWaitFailed ==
    /\ BatchReturned
    /\ WaitFailed
    /\ outcome = [kind |-> "error", msg |-> "Failed to execute sbatch"]

\* salloc exited with code 1 and the plain interactive run returned an error.
C20_WitnessInteractive ==
    /\ PlainInteractiveReturned
    /\ ExitedWith({1})
    /\ outcome = [kind |-> "error", msg |-> "Interactive job failed"]

-----------------------------------------------------------------------------
(* Texts with no last numeral in parse_time, checked under SpecTime *)

\* A text of the fast-path grammar that is empty or ends in '-' or ':'.
HasNoLastNumeral(s) ==
    /\ InSchedulerGrammar(s)
    /\ s = <<>> \/ s[Len(s)] \in {"-", ":"}

HasDigit(s) == \E i \in 1..Len(s) : IsDigit(s[i])

\* C21: the empty text and the texts of the fast-path grammar that end in a
\* separator, such as "1-", "3:" and "1:2:", are not errors: parse_time
\* returns them as typed.  The result for the empty text holds no digit, and
\* none of these results ends in a seconds numeral.
C21_SeparatorEndedTimesAccepted ==
    /\ tm.at /= "ready" /\ HasNoLastNumeral(tm.s) =>
          /\ tm.res = Ok(tm.s)
          /\ tm.res.val = <<>> \/ ~IsDigit(tm.res.val[Len(tm.res.val)])
    /\ tm.at /= "ready" /\ tm.s \in {<<>>, <<"1", "-">>, <<"3", ":">>, <<"1", ":", "2", ":">>} =>
          tm.res = Ok(tm.s)
    /\ tm.at /= "ready" /\ tm.s = <<>> => tm.res.ok /\ ~HasDigit(tm.res.val)

\* C21 witness: "1:2:" was parsed and came back as typed.
C21_Witness ==
    /\ tm.at = "parsed"
    /\ tm.s = <<"1", ":", "2", ":">>
    /\ HasNoLastNumeral(tm.s)
    /\ tm.res = Ok(<<"1", ":", "2", ":">>)

\* The empty text was parsed and came back as a result with no digit in it.
C21_WitnessEmpty ==
    /\ tm.at = "parsed"
    /\ tm.s = <<>>
    /\ tm.res = Ok(<<>>)

====
